---- MODULE Spec2Model ----
(***************************************************************************)
(* Torah Window plugin (packages/core/src/vivliostyle/torah-window.ts).    *)
(*                                                                         *)
(* The plugin registers two hooks with the layout engine:                  *)
(*   preprocessElementStyleHook   copies `hanging-indent` from the         *)
(*                                resolved style into inheritedProps;      *)
(*   postLayoutBlockHangingIndent measures the first word and the line     *)
(*                                count of a finished block and prepends   *)
(*                                two float markers to it.                 *)
(*                                                                         *)
(* The state is one block's layout context (inheritedProps, pluginProps)   *)
(* and the child list of its view node.  Lengths are in half pixels, so    *)
(* that 21 stands for 10.5px; strings that the code inspects character by  *)
(* character (text content, style.width) are sequences of characters, each *)
(* a one-character string or, for a character that has no escape, its code *)
(* point written "U+200B".                                                 *)
(***************************************************************************)
EXTENDS Integers, Sequences, FiniteSets, TLC

VARIABLES
    children,       \* blockElement.childNodes of nodeContext.viewNode
    inheritedProps, \* nodeContext.inheritedProps
    pluginProps,    \* nodeContext.pluginProps
    applies,        \* number of invocations that reached the insertion
    lastCall        \* the arguments and measurements of the latest call

vars == <<children, inheritedProps, pluginProps, applies, lastCall>>

\* Cap on the number of successful applications explored for one block.
MaxApplies == 2

----------------------------------------------------------------------------
(* Constants of the source *)

HANGING_INDENT_PROP == "hanging-indent"
FIRST_WORD == "first-word"
SPACER_CLASS == "vivliostyle-hanging-indent-spacer"
PUSHER_CLASS == "vivliostyle-hanging-indent-pusher"
KEY_APPLIED == "torahWindow:applied"
KEY_WIDTH == "torahWindow:width"
KEY_LINECOUNT == "torahWindow:lineCount"

----------------------------------------------------------------------------
(* String-keyed objects: an object reference is either null/undefined or   *)
(* a map from a finite set of keys to values.                              *)

EmptyMap == [k \in {} |-> 0]
NullObj == [isNull |-> TRUE, map |-> EmptyMap]
Obj(m) == [isNull |-> FALSE, map |-> m]
Put(m, k, v) == [x \in (DOMAIN m) \cup {k} |-> IF x = k THEN v ELSE m[x]]
Has(o, k) == ~o.isNull /\ k \in DOMAIN o.map

----------------------------------------------------------------------------
(* DOM nodes *)

NoStyle == [cssFloat |-> "", clear |-> "", width |-> <<>>, height |-> "",
            lineHeight |-> ""]

TextNode(s) == [nodeType |-> "TEXT_NODE", textContent |-> s,
                childNodes |-> <<>>, className |-> "", style |-> NoStyle]

Element(kids) == [nodeType |-> "ELEMENT_NODE", textContent |-> <<>>,
                  childNodes |-> kids, className |-> "", style |-> NoStyle]

\* The characters that \s matches and that trim() strips: WhiteSpace and
\* LineTerminator of ECMAScript.  A character with no escape in a string
\* is written as its code point, "U+00A0" (hex digits in either case).
WhiteSpaceChars ==
    { "\t", "\n", "\f", "\r", " ",
      "U+0009", "U+000A", "U+000B", "U+000C", "U+000D", "U+0020",
      "U+000a", "U+000b", "U+000c", "U+000d",
      "U+00A0", "U+00a0", "U+1680",
      "U+2000", "U+2001", "U+2002", "U+2003", "U+2004", "U+2005",
      "U+2006", "U+2007", "U+2008", "U+2009", "U+200A", "U+200a",
      "U+2028", "U+2029", "U+202F", "U+202f", "U+205F", "U+205f",
      "U+3000", "U+FEFF", "U+feff" }

IsSpace(c) == c \in WhiteSpaceChars

\* text.trim().length > 0
TrimNonEmpty(s) == \E i \in 1..Len(s) : ~IsSpace(s[i])

----------------------------------------------------------------------------
(* Tree walks of postLayoutBlockHangingIndent *)

NotFound == [found |-> FALSE, node |-> TextNode(<<>>)]

RECURSIVE findFirstTextNode(_), findFirstInChildNodes(_, _)
\* The first text node, in depth-first document order, whose trimmed
\* content is not empty.
findFirstTextNode(node) ==
    IF node.nodeType = "TEXT_NODE"
    THEN IF TrimNonEmpty(node.textContent)
         THEN [found |-> TRUE, node |-> node]
         ELSE NotFound
    ELSE findFirstInChildNodes(node.childNodes, 1)

\* for (let i = 0; i < node.childNodes.length; i++) of findFirstTextNode
findFirstInChildNodes(kids, i) ==
    IF i > Len(kids)
    THEN NotFound
    ELSE LET result == findFirstTextNode(kids[i])
         IN  IF result.found THEN result
             ELSE findFirstInChildNodes(kids, i + 1)

RECURSIVE collectTextNodes(_), collectFromChildNodes(_, _)
\* Every text node with non-empty trimmed content, in document order.
collectTextNodes(node) ==
    IF node.nodeType = "TEXT_NODE"
    THEN IF TrimNonEmpty(node.textContent) THEN <<node>> ELSE <<>>
    ELSE collectFromChildNodes(node.childNodes, 1)

\* for (let i = 0; i < node.childNodes.length; i++) of collectTextNodes
collectFromChildNodes(kids, i) ==
    IF i > Len(kids)
    THEN <<>>
    ELSE collectTextNodes(kids[i]) \o collectFromChildNodes(kids, i + 1)

----------------------------------------------------------------------------
(* text.match(/^(\s*\S+\s+)/) *)

RECURSIVE SpaceRun(_, _), WordRun(_, _)
\* Length of the maximal run of \s characters of s starting at index i.
SpaceRun(s, i) ==
    IF i <= Len(s) /\ IsSpace(s[i]) THEN 1 + SpaceRun(s, i + 1) ELSE 0

\* Length of the maximal run of \S characters of s starting at index i.
WordRun(s, i) ==
    IF i <= Len(s) /\ ~IsSpace(s[i]) THEN 1 + WordRun(s, i + 1) ELSE 0

\* firstWordWithSpace.length, or 0 when the pattern does not match.
FirstWordMatch(s) ==
    LET lead  == SpaceRun(s, 1)
        word  == WordRun(s, 1 + lead)
        trail == SpaceRun(s, 1 + lead + word)
    IN  IF word >= 1 /\ trail >= 1 THEN lead + word + trail ELSE 0

----------------------------------------------------------------------------
(* Geometry.  A rectangle returned by getRangeClientRects has a top and a  *)
(* width; `line` is the visual line the rectangle lies on, which the       *)
(* layout engine knows and the plugin never reads.                         *)

Rect(t, w, l) == [top |-> t, width |-> w, line |-> l]

RECURSIVE SumWidths(_)
\* for (const rect of rects) firstWordWidth += rect.width
SumWidths(rects) ==
    IF rects = <<>> THEN 0 ELSE Head(rects).width + SumWidths(Tail(rects))

\* Math.round of a length given in half pixels, in whole pixels.
MathRound(t) == (t + 1) \div 2

\* lineYPositions after the loop over textNodes; rectLists[i] is what
\* getRangeClientRects returns for the i-th collected text node.
LineYPositions(rectLists) ==
    UNION { { MathRound(rectLists[i][j].top) : j \in DOMAIN rectLists[i] } :
            i \in DOMAIN rectLists }

\* The visual lines the measured rectangles lie on.
VisualLines(rectLists) ==
    UNION { { rectLists[i][j].line : j \in DOMAIN rectLists[i] } :
            i \in DOMAIN rectLists }

----------------------------------------------------------------------------
(* `${firstWordWidth}px`: the decimal form of a number of half pixels.     *)

DigitChars == <<"0", "1", "2", "3", "4", "5", "6", "7", "8", "9">>

RECURSIVE NumberToString(_)
\* Decimal digits of a natural number, most significant first.
NumberToString(n) ==
    IF n < 10 THEN <<DigitChars[n + 1]>>
    ELSE NumberToString(n \div 10) \o <<DigitChars[(n % 10) + 1]>>

\* The template string `${w}px` for w half pixels.
FormatPx(w) ==
    NumberToString(w \div 2)
      \o (IF w % 2 = 1 THEN <<".", "5">> ELSE <<>>)
      \o <<"p", "x">>

----------------------------------------------------------------------------
(* The two float elements of the Indent Injector *)

\* floatSpacer
FloatSpacer ==
    [nodeType |-> "ELEMENT_NODE", textContent |-> <<>>, childNodes |-> <<>>,
     className |-> SPACER_CLASS,
     style |-> [cssFloat |-> "inline-start", clear |-> "", width |-> <<"0">>,
                height |-> "1.5rlh", lineHeight |-> "inherit"]]

\* floatIndent, for a first word measuring w half pixels
FloatIndent(w) ==
    [nodeType |-> "ELEMENT_NODE", textContent |-> <<>>, childNodes |-> <<>>,
     className |-> PUSHER_CLASS,
     style |-> [cssFloat |-> "inline-start", clear |-> "inline-start",
                width |-> FormatPx(w), height |-> "1px", lineHeight |-> ""]]

\* Node.insertBefore(node, ref): ref is the index of the reference child,
\* 0 for null (append).
InsertBefore(kids, node, ref) ==
    IF ref = 0 THEN Append(kids, node)
    ELSE SubSeq(kids, 1, ref - 1) \o <<node>> \o SubSeq(kids, ref, Len(kids))

\* Variant: the pusher is inserted before the spacer.
InsertMarkers_PusherFirst(kids, w) ==
    LET firstChild == IF kids = <<>> THEN 0 ELSE 1
        afterPusher == InsertBefore(kids, FloatIndent(w), firstChild)
        shifted == IF firstChild = 0 THEN 0 ELSE firstChild + 1
    IN  InsertBefore(afterPusher, FloatSpacer, shifted)

\* Variant: a block that already starts with a spacer is left alone.
InsertMarkers_Once(kids, w) ==
    IF kids # <<>> /\ Head(kids).className = SPACER_CLASS
    THEN kids
    ELSE <<FloatSpacer, FloatIndent(w)>> \o kids

\* const firstChild = blockElement.firstChild, then the two insertBefore
\* calls with that same reference node.
InsertMarkers(kids, w) ==
    LET firstChild == IF kids = <<>> THEN 0 ELSE 1
        afterSpacer == InsertBefore(kids, FloatSpacer, firstChild)
        shifted == IF firstChild = 0 THEN 0 ELSE firstChild + 1
    IN  InsertBefore(afterSpacer, FloatIndent(w), shifted)

\* Variant: the width is stored rounded to whole pixels.
WriteDiagnostics_RoundedWidth(pp, w, lineCount) ==
    LET m0 == IF pp.isNull THEN EmptyMap ELSE pp.map
    IN  Obj(Put(Put(Put(m0, KEY_APPLIED, 1), KEY_WIDTH, 2 * MathRound(w)),
                KEY_LINECOUNT, lineCount))

\* The three diagnostic writes into nodeContext.pluginProps.
WriteDiagnostics(pp, w, lineCount) ==
    LET m0 == IF pp.isNull THEN EmptyMap ELSE pp.map
    IN  Obj(Put(Put(Put(m0, KEY_APPLIED, 1), KEY_WIDTH, w),
                KEY_LINECOUNT, lineCount))

----------------------------------------------------------------------------
(* Hook 1: PREPROCESS_ELEMENT_STYLE *)

\* A value of the resolved style map under "hanging-indent": the key may be
\* missing, or hold null, the empty string, a Css.Ident, a string, or any
\* other object, of which `text` is what toString() returns.
StyleValue(k, n, t) == [kind |-> k, name |-> n, text |-> t]
MissingValue == StyleValue("missing", "", "")
NullValue    == StyleValue("null", "", "")
EmptyString  == StyleValue("string", "", "")
Ident(n)     == StyleValue("ident", n, n)
Str(t)       == StyleValue("string", "", t)
Other(t)     == StyleValue("other", "", t)

\* Variant: the test is for the key's presence, "hanging-indent" in style.
Truthy_KeyPresent(value) == value.kind # "missing"

\* if (styleObj[HANGING_INDENT_PROP])
Truthy(value) ==
    /\ value.kind # "missing"
    /\ value.kind # "null"
    /\ ~(value.kind = "string" /\ value.text = "")

\* stringValue
NormalizeValue(value) ==
    IF value.kind = "ident" THEN value.name
    ELSE IF value.kind = "string" THEN value.text
    ELSE value.text

\* nodeContext.inheritedProps after the hook has run with this style value.
preprocessElementStyleHook(inh, value) ==
    IF Truthy(value)
    THEN LET m0 == IF inh.isNull THEN EmptyMap ELSE inh.map
         IN  Obj(Put(m0, HANGING_INDENT_PROP, NormalizeValue(value)))
    ELSE inh

----------------------------------------------------------------------------
(* Hook 2: POST_LAYOUT_BLOCK *)

\* The first log statement reads nodeContext.inline before the null check.
LogThrows(args) == args.nullCtx

\* Variant: the fragment index is not tested.
GateSkips_AnyFragment(args) ==
    \/ args.checkPoints = 0
    \/ args.inline

\* The three early returns of the eligibility gate.
GateSkips(args) ==
    \/ args.checkPoints = 0
    \/ args.inline
    \/ args.fragmentIndex > 1

\* Variant: any non-empty value enables the transform.
StyleOptedIn_AnyValue(inh) ==
    /\ ~inh.isNull
    /\ HANGING_INDENT_PROP \in DOMAIN inh.map
    /\ inh.map[HANGING_INDENT_PROP] # ""

\* The block carries hanging-indent: first-word.
StyleOptedIn(inh) ==
    /\ ~inh.isNull
    /\ HANGING_INDENT_PROP \in DOMAIN inh.map
    /\ inh.map[HANGING_INDENT_PROP] # ""
    /\ inh.map[HANGING_INDENT_PROP] = FIRST_WORD

\* The call reaches the search for the first text node.
PassesGate(inh, args) ==
    /\ ~LogThrows(args)
    /\ ~GateSkips(args)
    /\ StyleOptedIn(inh)
    /\ args.hasView

\* Variant: the first text node that matches the pattern is measured.
MeasuresFirstWord_AnyTextNode(kids, inh, args) ==
    /\ PassesGate(inh, args)
    /\ LET nodes == collectTextNodes(Element(kids))
       IN  \E i \in DOMAIN nodes : FirstWordMatch(nodes[i].textContent) > 0

\* The code calls getRangeClientRects for the first word.
MeasuresFirstWord(kids, inh, args) ==
    /\ PassesGate(inh, args)
    /\ LET first == findFirstTextNode(Element(kids))
       IN  first.found /\ FirstWordMatch(first.node.textContent) > 0

\* firstWordWidth at the check of line 169.
FirstWordWidth(kids, inh, args, wordRects) ==
    IF MeasuresFirstWord(kids, inh, args) THEN SumWidths(wordRects) ELSE 0

\* if (!firstTextNode || firstWordWidth === 0) return
NoFirstWord(found, firstWordWidth) == ~found \/ firstWordWidth = 0

\* Variant: one line is enough.
TooFewLines_AllowOne(lineCount) == lineCount < 1

\* if (lineCount < 2) return
TooFewLines(lineCount) == lineCount < 2

\* The code goes on to measure every collected text node.
CountsLines(kids, inh, args, wordRects) ==
    /\ PassesGate(inh, args)
    /\ ~NoFirstWord(findFirstTextNode(Element(kids)).found,
                    FirstWordWidth(kids, inh, args, wordRects))

\* The whole callback: the block's children and plugin properties after
\* the call, whether it inserted the markers and whether it threw.
postLayoutBlockHangingIndent(kids, inh, pp, args, wordRects, rectLists) ==
    LET quiet == [children |-> kids, pluginProps |-> pp,
                  applied |-> FALSE, threw |-> FALSE]
    IN  IF LogThrows(args) THEN [quiet EXCEPT !.threw = TRUE]
        ELSE IF ~CountsLines(kids, inh, args, wordRects) THEN quiet
        ELSE LET firstWordWidth == FirstWordWidth(kids, inh, args, wordRects)
                 lineCount == Cardinality(LineYPositions(rectLists))
             IN  IF TooFewLines(lineCount) THEN quiet
                 ELSE [children |-> InsertMarkers(kids, firstWordWidth),
                       pluginProps |->
                           WriteDiagnostics(pp, firstWordWidth, lineCount),
                       applied |-> TRUE, threw |-> FALSE]

----------------------------------------------------------------------------
(* Inputs *)

Hello    == <<"H", "i", " ", "y", "o">>
Leading  == <<"\f", "a", "U+00A0", "\n", "b">>
NoSpace  == <<"a", "U+200B", "b">>
Blank    == <<" ", "\r", "U+000B", "U+3000">>

\* The rendered content of the block when layout hands it to the plugin.
Blocks ==
    { <<>>,
      <<TextNode(Blank)>>,
      <<TextNode(NoSpace)>>,
      <<TextNode(Hello)>>,
      <<TextNode(Leading)>>,
      <<TextNode(Blank), TextNode(Hello)>>,
      <<TextNode(NoSpace), TextNode(Hello)>>,
      <<Element(<<TextNode(Hello)>>), TextNode(NoSpace)>>,
      <<Element(<<>>), TextNode(<<>>), TextNode(Hello)>>,
      <<Element(<<TextNode(Blank), Element(<<TextNode(NoSpace)>>)>>),
        TextNode(Hello)>>,
      <<TextNode(Hello), Element(<<TextNode(Leading)>>)>>,
      <<Element(<<Element(<<TextNode(Leading)>>)>>), TextNode(Blank)>> }

\* Values the style map may hold for hanging-indent.
StyleValues ==
    { MissingValue, NullValue, EmptyString, Ident(FIRST_WORD), Ident("none"),
      Ident(""),
      Str(FIRST_WORD), Other("2em") }

\* (nodeContext, checkPoints) as the layout engine passes them.
CallArgs ==
    [nullCtx : {FALSE}, checkPoints : {0, 1}, inline : BOOLEAN,
     fragmentIndex : {1, 2}, hasView : BOOLEAN]
    \cup
    [nullCtx : {TRUE}, checkPoints : {0, 1}, inline : {FALSE},
     fragmentIndex : {1}, hasView : {FALSE}]

\* What getRangeClientRects may return for the first-word range.
WordRectLists ==
    { <<>>,
      <<Rect(20, 0, 1)>>,
      <<Rect(20, 24, 1)>>,
      <<Rect(20, 24, 1), Rect(44, 3, 2)>> }

\* What getRangeClientRects may return for one whole text node.  Tops 20,
\* 21 and 22 are 10px, 10.5px and 11px; -21 and -20 are -10.5px and -10px.
NodeRectLists ==
    { <<>>,
      <<Rect(20, 24, 1)>>,
      <<Rect(20, 24, 1), Rect(21, 8, 1)>>,
      <<Rect(21, 24, 1), Rect(22, 24, 2)>>,
      <<Rect(20, 24, 1), Rect(44, 24, 2)>>,
      <<Rect(-21, 24, 1), Rect(-20, 24, 2)>> }

----------------------------------------------------------------------------
(* State machine *)

NoCall ==
    [op |-> "none", nullCtx |-> FALSE, checkPoints |-> 0, inline |-> FALSE,
     fragmentIndex |-> 1, hasView |-> FALSE, style |-> MissingValue,
     threw |-> FALSE, wordRects |-> <<>>, rects |-> <<>>]

Init ==
    /\ children \in Blocks
    /\ inheritedProps \in {NullObj, Obj(Put(EmptyMap, "text-align", "justify"))}
    /\ pluginProps \in {NullObj, Obj(EmptyMap)}
    /\ applies = 0
    /\ lastCall = NoCall

\* The host resolves the style of the block's element.
PreprocessElementStyle ==
    \E value \in StyleValues :
        /\ inheritedProps' = preprocessElementStyleHook(inheritedProps, value)
        /\ lastCall' = [NoCall EXCEPT !.op = "preprocess", !.style = value]
        /\ UNCHANGED <<children, pluginProps, applies>>

\* The host has laid the block out and runs the POST_LAYOUT_BLOCK hooks.
PostLayoutBlock ==
    /\ applies < MaxApplies
    /\ \E args \in CallArgs :
       \E wordRects \in (IF MeasuresFirstWord(children, inheritedProps, args)
                         THEN WordRectLists ELSE {<<>>}) :
       \E rectLists \in
            (IF CountsLines(children, inheritedProps, args, wordRects)
             THEN [1..Len(collectTextNodes(Element(children)))
                     -> NodeRectLists]
             ELSE {<<>>}) :
          LET r == postLayoutBlockHangingIndent(children, inheritedProps,
                       pluginProps, args, wordRects, rectLists)
          IN  /\ children' = r.children
              /\ pluginProps' = r.pluginProps
              /\ applies' = IF r.applied THEN applies + 1 ELSE applies
              /\ lastCall' =
                   [op |-> "postLayout", nullCtx |-> args.nullCtx,
                    checkPoints |-> args.checkPoints, inline |-> args.inline,
                    fragmentIndex |-> args.fragmentIndex,
                    hasView |-> args.hasView, style |-> MissingValue,
                    threw |-> r.threw, wordRects |-> wordRects,
                    rects |-> rectLists]
              /\ UNCHANGED inheritedProps

Next == PreprocessElementStyle \/ PostLayoutBlock

Spec == Init /\ [][Next]_vars

----------------------------------------------------------------------------
(* Vocabulary of the properties *)

DigitValue(c) == CHOOSE d \in 0..9 : DigitChars[d + 1] = c

RECURSIVE ParseDigits(_, _)
\* Value of the leading digits of s, continuing from the value acc.
ParseDigits(s, acc) ==
    IF s # <<>> /\ \E d \in 0..9 : DigitChars[d + 1] = Head(s)
    THEN ParseDigits(Tail(s), 10 * acc + DigitValue(Head(s)))
    ELSE acc

\* The used value, in half pixels, of a width written as a pixel length
\* or as the unitless zero; -1 for any other string.
ParsePx(s) ==
    LET intLen == CHOOSE k \in 0..Len(s) :
                    /\ \A i \in 1..k : \E d \in 0..9 : DigitChars[d + 1] = s[i]
                    /\ (k < Len(s) => ~\E d \in 0..9 : DigitChars[d + 1] = s[k + 1])
        rest == SubSeq(s, intLen + 1, Len(s))
        whole == 2 * ParseDigits(s, 0)
    IN  IF intLen = 0 THEN -1
        ELSE IF rest = <<"p", "x">> THEN whole
        ELSE IF rest = <<".", "5", "p", "x">> THEN whole + 1
        ELSE IF rest = <<>> /\ whole = 0 THEN 0
        ELSE -1

IsSpacer(node) ==
    /\ node.nodeType = "ELEMENT_NODE"
    /\ node.className = SPACER_CLASS
    /\ node.childNodes = <<>>

IsPusher(node) ==
    /\ node.nodeType = "ELEMENT_NODE"
    /\ node.className = PUSHER_CLASS
    /\ node.childNodes = <<>>

IsMarker(node) == IsSpacer(node) \/ IsPusher(node)

MarkerCount(kids) == Cardinality({ i \in DOMAIN kids : IsMarker(kids[i]) })

\* kids is `before` with a spacer and then a pusher of width w in front.
Prepended(kids, before, w) ==
    /\ Len(kids) = Len(before) + 2
    /\ IsSpacer(kids[1])
    /\ IsPusher(kids[2])
    /\ ParsePx(kids[2].style.width) = w
    /\ SubSeq(kids, 3, Len(kids)) = before

\* The diagnostics are exactly applied = 1, width = w, lineCount = n.
DiagnosticsAre(pp, w, n) ==
    /\ Has(pp, KEY_APPLIED) /\ pp.map[KEY_APPLIED] = 1
    /\ Has(pp, KEY_WIDTH) /\ pp.map[KEY_WIDTH] = w
    /\ Has(pp, KEY_LINECOUNT) /\ pp.map[KEY_LINECOUNT] = n

NoDiagnostics(pp) ==
    ~Has(pp, KEY_APPLIED) /\ ~Has(pp, KEY_WIDTH) /\ ~Has(pp, KEY_LINECOUNT)

\* The latest call was the post-layout callback with arguments that pass
\* the checkpoint, inline and fragment tests on an existing view node.
CalledOnFirstFragment(call) ==
    /\ call.op = "postLayout"
    /\ ~call.nullCtx
    /\ call.checkPoints > 0
    /\ ~call.inline
    /\ call.fragmentIndex <= 1
    /\ call.hasView

HangingIndentIs(inh, v) ==
    Has(inh, HANGING_INDENT_PROP) /\ inh.map[HANGING_INDENT_PROP] = v

\* The first non-empty text node of the block starts with a word followed
\* by whitespace.
StartsWithWord(kids) ==
    LET first == findFirstTextNode(Element(kids))
    IN  first.found /\ FirstWordMatch(first.node.textContent) > 0

BlockUntouched ==
    /\ children' = children
    /\ inheritedProps' = inheritedProps
    /\ pluginProps' = pluginProps

----------------------------------------------------------------------------
(* Properties *)

\* C1: a post-layout call on an eligible block whose first word measures
\* W > 0 and whose text rectangles give at least two distinct rounded tops
\* leaves the children as [spacer, pusher of width W] followed by the
\* previous children, and the diagnostics as applied = 1, width = W,
\* lineCount = the number of distinct rounded tops.
C1_EligibleBlockGetsMarkers ==
    [][ ( /\ CalledOnFirstFragment(lastCall')
          /\ HangingIndentIs(inheritedProps, FIRST_WORD)
          /\ StartsWithWord(children)
          /\ SumWidths(lastCall'.wordRects) > 0
          /\ Cardinality(LineYPositions(lastCall'.rects)) >= 2 )
        => /\ Prepended(children', children, SumWidths(lastCall'.wordRects))
           /\ DiagnosticsAre(pluginProps', SumWidths(lastCall'.wordRects),
                             Cardinality(LineYPositions(lastCall'.rects)))
      ]_vars

\* C1 witness: "Hi yo" measured as 12px + 1.5px over three rounded tops.
C1_Witness ==
    /\ CalledOnFirstFragment(lastCall)
    /\ SumWidths(lastCall.wordRects) = 27
    /\ Cardinality(LineYPositions(lastCall.rects)) = 3
    /\ Prepended(children, <<TextNode(Hello), Element(<<TextNode(Leading)>>)>>,
                 27)
    /\ children[2].style.width = <<"1", "3", ".", "5", "p", "x">>
    /\ DiagnosticsAre(pluginProps, 27, 3)

\* C2: without hanging-indent = "first-word" in the inherited properties
\* (no mapping, no key, empty value or another value) the post-layout call
\* changes neither the children nor any property mapping.
C2_UnstyledBlockUntouched ==
    [][ ( /\ lastCall'.op = "postLayout"
          /\ ~HangingIndentIs(inheritedProps, FIRST_WORD) )
        => BlockUntouched /\ (NoDiagnostics(pluginProps) =>
                                NoDiagnostics(pluginProps'))
      ]_vars

\* C2 witness: a two-line-capable block styled hanging-indent: none, called
\* with arguments that pass every other test.
C2_Witness ==
    /\ CalledOnFirstFragment(lastCall)
    /\ HangingIndentIs(inheritedProps, "none")
    /\ children = <<TextNode(Hello)>>
    /\ NoDiagnostics(pluginProps)

\* C3: with an empty checkpoint list, an inline node or a fragment index
\* above 1 the post-layout call changes nothing, whatever the style and
\* the content.
C3_GateShortCircuits ==
    [][ ( /\ lastCall'.op = "postLayout"
          /\ \/ lastCall'.checkPoints = 0
             \/ lastCall'.inline
             \/ lastCall'.fragmentIndex > 1 )
        => BlockUntouched
      ]_vars

\* C3 witness: hanging-indent: first-word, measurable text, fragment 2.
C3_Witness ==
    /\ lastCall.op = "postLayout"
    /\ ~lastCall.nullCtx /\ lastCall.hasView
    /\ lastCall.checkPoints > 0 /\ ~lastCall.inline
    /\ lastCall.fragmentIndex = 2
    /\ HangingIndentIs(inheritedProps, FIRST_WORD)
    /\ children = <<TextNode(Hello)>>

\* C4: when the rectangles of the text nodes give fewer than two distinct
\* rounded tops, the post-layout call changes nothing, whatever the first
\* word measures.
C4_SingleLineUntouched ==
    [][ ( /\ lastCall'.op = "postLayout"
          /\ Cardinality(LineYPositions(lastCall'.rects)) < 2 )
        => BlockUntouched
      ]_vars

\* C4 witness: first word 12px wide, two rectangles at 10.5px and 11px.
C4_Witness ==
    /\ CalledOnFirstFragment(lastCall)
    /\ HangingIndentIs(inheritedProps, FIRST_WORD)
    /\ SumWidths(lastCall.wordRects) = 24
    /\ lastCall.rects = << <<Rect(21, 24, 1), Rect(22, 24, 2)>> >>
    /\ children = <<TextNode(Hello)>>

\* C5: when the block has no non-empty text node, or the first one does
\* not start with a word followed by whitespace, or the first-word
\* rectangles are none or sum to width 0, the post-layout call changes
\* nothing; a later text node that would match is not used.
C5_NoFirstWordUntouched ==
    [][ ( /\ lastCall'.op = "postLayout"
          /\ \/ ~StartsWithWord(children)
             \/ SumWidths(lastCall'.wordRects) = 0 )
        => BlockUntouched
      ]_vars

\* C5 witness: the first text node, "a" + zero-width space + "b", has no
\* whitespace after its word; the second one, "Hi yo", would match.
C5_Witness ==
    /\ CalledOnFirstFragment(lastCall)
    /\ HangingIndentIs(inheritedProps, FIRST_WORD)
    /\ children = <<TextNode(NoSpace), TextNode(Hello)>>

\* C6: the style capture hook never fails and changes nothing but the
\* inherited properties: for a non-empty hanging-indent value it stores the
\* identifier's name, the string itself or the stringified form under
\* "hanging-indent", creating the mapping if there was none, keeping every
\* other key and replacing an earlier value; for a missing or empty value
\* it leaves the inherited properties as they were.
C6_StyleCapture ==
    [][ lastCall'.op = "preprocess"
        => LET value == lastCall'.style
               nonEmpty == /\ value.kind \in {"ident", "string", "other"}
                           /\ ~(value.kind = "string" /\ value.text = "")
               expected == IF value.kind = "ident" THEN value.name
                           ELSE value.text
               oldKeys == IF inheritedProps.isNull THEN {}
                          ELSE DOMAIN inheritedProps.map
           IN  /\ ~lastCall'.threw
               /\ children' = children
               /\ pluginProps' = pluginProps
               /\ nonEmpty =>
                    /\ ~inheritedProps'.isNull
                    /\ DOMAIN inheritedProps'.map
                         = oldKeys \cup {HANGING_INDENT_PROP}
                    /\ inheritedProps'.map[HANGING_INDENT_PROP] = expected
                    /\ \A k \in oldKeys \ {HANGING_INDENT_PROP} :
                         inheritedProps'.map[k] = inheritedProps.map[k]
               /\ ~nonEmpty => inheritedProps' = inheritedProps
      ]_vars

\* C6 witness: the identifier `none` captured over an earlier "first-word"
\* (which had already been applied), next to an inherited key of the host.
C6_Witness ==
    /\ lastCall.op = "preprocess"
    /\ lastCall.style = Ident("none")
    /\ HangingIndentIs(inheritedProps, "none")
    /\ Has(inheritedProps, "text-align")
    /\ applies >= 1

\* The block holds as many spacers as pushers, two per application, and
\* the diagnostics are present exactly when markers are.
AtomicApplication ==
    /\ MarkerCount(children) = 2 * applies
    /\ Cardinality({ i \in DOMAIN children : IsSpacer(children[i]) })
         = Cardinality({ i \in DOMAIN children : IsPusher(children[i]) })
    /\ Has(pluginProps, KEY_APPLIED) <=> applies > 0
    /\ Has(pluginProps, KEY_WIDTH) <=> applies > 0
    /\ Has(pluginProps, KEY_LINECOUNT) <=> applies > 0

\* C7: every post-layout call returns without raising an error, and after
\* it the block has either all of spacer, pusher and diagnostics of each
\* application or none of them.
C7_TotalAndAtomic ==
    /\ lastCall.op = "postLayout" => ~lastCall.threw
    /\ AtomicApplication

\* C8: the block holds two markers per call that passed every check, the
\* number of markers never decreases, and a call that passes every check
\* on an already transformed block puts a further spacer/pusher pair in
\* front of the earlier pair.
C8_RepeatedCallsInsertAgain ==
    [][ /\ MarkerCount(children') = 2 * applies'
        /\ MarkerCount(children') >= MarkerCount(children)
        /\ ( /\ applies >= 1
             /\ CalledOnFirstFragment(lastCall')
             /\ HangingIndentIs(inheritedProps, FIRST_WORD)
             /\ StartsWithWord(children)
             /\ SumWidths(lastCall'.wordRects) > 0
             /\ Cardinality(LineYPositions(lastCall'.rects)) >= 2 )
           => /\ applies' = applies + 1
              /\ Prepended(children', children,
                           SumWidths(lastCall'.wordRects))
              /\ IsSpacer(children'[3]) /\ IsPusher(children'[4])
      ]_vars

\* C8 witness: two applications, the later one (13.5px) in front of the
\* earlier one (12px).
C8_Witness ==
    /\ applies = 2
    /\ MarkerCount(children) = 4
    /\ SumWidths(lastCall.wordRects) = 27
    /\ ParsePx(children[2].style.width) = 27
    /\ ParsePx(children[4].style.width) = 24
    /\ IsSpacer(children[1]) /\ IsSpacer(children[3])

\* C9: the detected line count never exceeds the number of visual lines
\* the measured rectangles lie on.
C9_LineCountIsLowerBound ==
    lastCall.op = "postLayout"
        => Cardinality(LineYPositions(lastCall.rects))
             <= Cardinality(VisualLines(lastCall.rects))

\* C10: whenever the applied flag is set the first two children are a
\* spacer and a pusher whose width is the diagnostic width; the diagnostics
\* change only in a call that inserts markers, and a call that inserts
\* none leaves them as the latest application wrote them.
C10_DiagnosticsFollowMarkers ==
    [][ /\ Has(pluginProps', KEY_APPLIED)
           => /\ Len(children') >= 2
              /\ IsSpacer(children'[1])
              /\ IsPusher(children'[2])
              /\ Has(pluginProps', KEY_WIDTH)
              /\ ParsePx(children'[2].style.width)
                   = pluginProps'.map[KEY_WIDTH]
        /\ pluginProps' # pluginProps
           => MarkerCount(children') = MarkerCount(children) + 2
        /\ MarkerCount(children') = MarkerCount(children)
           => pluginProps' = pluginProps
      ]_vars

\* C10 witness: applied once with width 13.5px, then the style was captured
\* again as `none` and the callback ran again: the diagnostics remain.
C10_Witness ==
    /\ CalledOnFirstFragment(lastCall)
    /\ HangingIndentIs(inheritedProps, "none")
    /\ applies = 1
    /\ DiagnosticsAre(pluginProps, 27, 2)
    /\ ParsePx(children[2].style.width) = 27

====
